---- MODULE Spec2Model ----
(***************************************************************************)
(* The ARM-mode instruction core of src/src/arm7tdmi.rs: the register      *)
(* file, the flags register, fetch / decode / execute / step and the       *)
(* branch, data-processing and single-data-transfer handlers.              *)
(*                                                                         *)
(* A u32 is the pair <<hi, lo>> of its two 16-bit halves, so every         *)
(* operation keeps the 32-bit width of the source (wrapping_add carries    *)
(* out of bit 31 and drops the carry).                                     *)
(***************************************************************************)
EXTENDS Integers, Sequences, FiniteSets, TLC

VARIABLES rom, registers, cpsr, panic, prev, direct

vars == <<rom, registers, cpsr, panic, prev, direct>>

(***************************************************************************)
(* 32-bit words                                                            *)
(***************************************************************************)
Half == 2 ^ 16

\* The u32 whose value is the natural number n (n below 2^31).
U32(n) == <<n \div Half, n % Half>>

\* Bit i (0 = least significant) of a u32, as 0 or 1.
BitOf(w, i) ==
    IF i < 16 THEN (w[2] \div (2 ^ i)) % 2 ELSE (w[1] \div (2 ^ (i - 16))) % 2

RECURSIVE ValueOf(_, _, _)
\* The number spelled by the n bits f[from], f[from+1], ... (least significant first).
ValueOf(f, from, n) ==
    IF n = 0 THEN 0 ELSE f[from] + 2 * ValueOf(f, from + 1, n - 1)

\* The u32 whose bit i is f[i].
FromBits(f) == <<ValueOf(f, 16, 16), ValueOf(f, 0, 16)>>

\* Bits::get_bit / Bits::is_bit_on
get_bit(w, i) == BitOf(w, i) = 1

is_bit_on(w, i) == get_bit(w, i)

\* Bits::get_bits(lo..=hi): the field, moved down to bit 0, as a number.
get_bits(w, lo, hi) ==
    ValueOf([i \in 0..(hi - lo) |-> BitOf(w, lo + i)], 0, hi - lo + 1)

\* u32::wrapping_add
wrapping_add(a, b) ==
    LET lo == a[2] + b[2]
        hi == a[1] + b[1] + (lo \div Half)
    IN  <<hi % Half, lo % Half>>

\* u32::wrapping_sub
wrapping_sub(a, b) ==
    LET lo == a[2] - b[2]
        borrow == IF lo < 0 THEN 1 ELSE 0
        hi == a[1] - b[1] - borrow
    IN  <<hi % Half, lo % Half>>

\* the ^ operator of u32
xor(a, b) == FromBits([i \in 0..31 |-> (BitOf(a, i) + BitOf(b, i)) % 2])

\* value << n, value >> n, (value as i32) >> n and value.rotate_right(n), for n
\* below 32 (every call site of the source passes an amount below 32).
shl(w, n) == FromBits([i \in 0..31 |-> IF i >= n THEN BitOf(w, i - n) ELSE 0])

shr(w, n) == FromBits([i \in 0..31 |-> IF i + n <= 31 THEN BitOf(w, i + n) ELSE 0])

sar(w, n) == FromBits([i \in 0..31 |-> IF i + n <= 31 THEN BitOf(w, i + n) ELSE BitOf(w, 31)])

rotate_right(w, n) == FromBits([i \in 0..31 |-> BitOf(w, (i + n) % 32)])

\* u32::from_le_bytes
from_le_bytes(b) == <<b[4] * 256 + b[3], b[2] * 256 + b[1]>>

Zero == U32(0)

(***************************************************************************)
(* Flags register and condition evaluation (crate::cpsr, crate::condition) *)
(***************************************************************************)
\* Cpsr::default(): every flag clear.
CpsrDefault ==
    [sign_flag |-> FALSE, zero_flag |-> FALSE, carry_flag |-> FALSE, overflow_flag |-> FALSE]

set_sign_flag(c, v) == [c EXCEPT !.sign_flag = v]

set_zero_flag(c, v) == [c EXCEPT !.zero_flag = v]

\* Cpsr::can_execute over the 16 condition codes (opcode bits 31..28).
can_execute(c, condition) ==
    LET N == c.sign_flag
        Z == c.zero_flag
        C == c.carry_flag
        V == c.overflow_flag
    IN  CASE condition = 0  -> Z
          [] condition = 1  -> ~Z
          [] condition = 2  -> C
          [] condition = 3  -> ~C
          [] condition = 4  -> N
          [] condition = 5  -> ~N
          [] condition = 6  -> V
          [] condition = 7  -> ~V
          [] condition = 8  -> C /\ ~Z
          [] condition = 9  -> ~C \/ Z
          [] condition = 10 -> N = V
          [] condition = 11 -> N # V
          [] condition = 12 -> (N = V) /\ ~Z
          [] condition = 13 -> (N # V) \/ Z
          [] condition = 14 -> TRUE
          [] OTHER          -> FALSE

(***************************************************************************)
(* Instruction decoder (crate::instruction, crate::alu_instruction)        *)
(***************************************************************************)
\* ArmModeInstruction::try_from(op_code); "Err" is the Err(e) of the source.
InstructionOf(op_code) ==
    CASE get_bits(op_code, 25, 27) = 5 ->
            IF get_bit(op_code, 24) THEN "BranchLink" ELSE "Branch"
      [] get_bits(op_code, 26, 27) = 0 ->
            IF get_bit(op_code, 25) THEN "DataProcessing3"
            ELSE IF get_bit(op_code, 4) THEN "DataProcessing2"
            ELSE "DataProcessing1"
      [] get_bits(op_code, 26, 27) = 1 -> "DataTransfer"
      [] OTHER -> "Err"

\* ArmModeAluInstruction::from(alu_opcode)
AluInstructionOf(alu_opcode) ==
    CASE alu_opcode = 0  -> "And"
      [] alu_opcode = 1  -> "Eor"
      [] alu_opcode = 2  -> "Sub"
      [] alu_opcode = 3  -> "Rsb"
      [] alu_opcode = 4  -> "Add"
      [] alu_opcode = 5  -> "Adc"
      [] alu_opcode = 6  -> "Sbc"
      [] alu_opcode = 7  -> "Rsc"
      [] alu_opcode = 8  -> "Tst"
      [] alu_opcode = 9  -> "Teq"
      [] alu_opcode = 10 -> "Cmp"
      [] alu_opcode = 11 -> "Cmn"
      [] alu_opcode = 12 -> "Orr"
      [] alu_opcode = 13 -> "Mov"
      [] alu_opcode = 14 -> "Bic"
      [] OTHER           -> "Mvn"

\* impl From<u32> for SingleDataTransfer
SingleDataTransferOf(op_code) ==
    LET must_for_pld ==
            /\ is_bit_on(op_code, 31)
            /\ is_bit_on(op_code, 30)
            /\ is_bit_on(op_code, 29)
            /\ is_bit_on(op_code, 28)
    IN  IF get_bit(op_code, 20)
        THEN IF must_for_pld THEN "Pld" ELSE "Ldr"
        ELSE "Str"

(***************************************************************************)
(* Register file                                                           *)
(***************************************************************************)
\* Registers::default()
RegistersDefault == [r \in 0..15 |-> Zero]

program_counter(regs) == regs[15]

advance_program_counter(regs, bytes) ==
    [regs EXCEPT ![15] = wrapping_add(@, U32(bytes))]

set_register_at(regs, reg, new_value) == [regs EXCEPT ![reg] = new_value]

register_at(regs, reg) == regs[reg]

(***************************************************************************)
(* Execution handlers.  A handler takes the core m = [registers, cpsr,     *)
(* panic] and the opcode and returns the core as the handler leaves it;    *)
(* panic is "none", or names the macro that aborted the handler, and the   *)
(* core is then as it was when the macro was reached.                      *)
(***************************************************************************)
OPCODE_ARM_SIZE == 4

\* branch reading the 24-bit offset as a signed number: with bit 23 set the
\* jump goes back by 2^26 bytes less the field.
branch_sign_extended(m, op_code) ==
    LET offset == get_bits(op_code, 0, 23)
        moved == advance_program_counter(m.registers, 8 + offset * 4)
    IN  [m EXCEPT !.registers =
             IF get_bit(op_code, 23)
             THEN [moved EXCEPT ![15] = wrapping_sub(@, U32(2 ^ 26))]
             ELSE moved]

branch(m, op_code) ==
    LET offset == get_bits(op_code, 0, 23)
    IN  [m EXCEPT !.registers = advance_program_counter(@, 8 + offset * 4)]

\* branch_link linking after the jump: R14 is read from the program counter
\* the jump has already moved.
branch_link_after_jump(m, op_code) ==
    LET offset == get_bits(op_code, 0, 23)
        jumped == advance_program_counter(m.registers, 8 + offset * 4)
    IN  [m EXCEPT !.registers =
             set_register_at(jumped, 14, wrapping_add(program_counter(jumped), U32(4)))]

branch_link(m, op_code) ==
    LET pc == program_counter(m.registers)
        linked == set_register_at(m.registers, 14, wrapping_add(pc, U32(4)))
        offset == get_bits(op_code, 0, 23)
    IN  [m EXCEPT !.registers = advance_program_counter(linked, 8 + offset * 4)]

mov(m, rd, op2) == [m EXCEPT !.registers = set_register_at(@, rd, op2)]

\* teq taking the flags from operand 2 alone, Rn left out of the XOR.
teq_of_operand(m, rn, op2) ==
    [m EXCEPT !.cpsr = set_zero_flag(set_sign_flag(@, is_bit_on(op2, 31)), op2 = Zero)]

teq(m, rn, op2) ==
    LET value == xor(register_at(m.registers, rn), op2)
    IN  [m EXCEPT !.cpsr = set_zero_flag(set_sign_flag(@, is_bit_on(value, 31)),
                                         value = Zero)]

\* Returns [value, panic].
shift_immediate(shift_type, shift_amount, value) ==
    CASE shift_type = 0 -> [value |-> shl(value, shift_amount), panic |-> "none"]
      [] shift_type = 1 -> [value |-> shr(value, shift_amount), panic |-> "none"]
      [] shift_type = 2 -> [value |-> sar(value, shift_amount), panic |-> "none"]
      [] shift_type = 3 -> [value |-> rotate_right(value, shift_amount), panic |-> "none"]
      [] OTHER          -> [value |-> value, panic |-> "unreachable"]

\* shift with ROR #0 carried out as RRX: the value rotated right by one bit with
\* the carry flag coming in as bit 31, and no todo!().
shift_rrx(m, shift_type, shift_amount, value) ==
    IF shift_amount = 0
    THEN CASE shift_type = 0 ->
                [value |-> value, cpsr |-> m.cpsr, panic |-> "none"]
           [] shift_type = 1 ->
                LET rm == register_at(m.registers, value[2])
                IN  [value |-> Zero,
                     cpsr  |-> set_sign_flag(m.cpsr, get_bit(rm, 31)),
                     panic |-> "none"]
           [] shift_type = 2 ->
                LET rm == register_at(m.registers, value[2])
                IN  IF get_bit(rm, 31)
                    THEN [value |-> U32(1),
                          cpsr  |-> set_sign_flag(m.cpsr, TRUE),
                          panic |-> "none"]
                    ELSE [value |-> Zero,
                          cpsr  |-> set_sign_flag(m.cpsr, TRUE),
                          panic |-> "none"]
           [] shift_type = 3 ->
                [value |-> FromBits([i \in 0..31 |->
                               IF i = 31 THEN (IF m.cpsr.carry_flag THEN 1 ELSE 0)
                                         ELSE BitOf(value, i + 1)]),
                 cpsr  |-> m.cpsr,
                 panic |-> "none"]
           [] OTHER ->
                [value |-> value, cpsr |-> m.cpsr, panic |-> "unreachable"]
    ELSE LET s == shift_immediate(shift_type, shift_amount, value)
         IN  [value |-> s.value, cpsr |-> m.cpsr, panic |-> s.panic]

\* Returns [value, cpsr, panic]: the shifted value and the flags as shift leaves them.
shift(m, shift_type, shift_amount, value) ==
    IF shift_amount = 0
    THEN CASE shift_type = 0 ->
                [value |-> value, cpsr |-> m.cpsr, panic |-> "none"]
           [] shift_type = 1 ->
                LET rm == register_at(m.registers, value[2])
                IN  [value |-> Zero,
                     cpsr  |-> set_sign_flag(m.cpsr, get_bit(rm, 31)),
                     panic |-> "none"]
           [] shift_type = 2 ->
                LET rm == register_at(m.registers, value[2])
                IN  IF get_bit(rm, 31)
                    THEN [value |-> U32(1),
                          cpsr  |-> set_sign_flag(m.cpsr, TRUE),
                          panic |-> "none"]
                    ELSE [value |-> Zero,
                          cpsr  |-> set_sign_flag(m.cpsr, TRUE),
                          panic |-> "none"]
           [] shift_type = 3 ->
                [value |-> value, cpsr |-> m.cpsr, panic |-> "todo"]
           [] OTHER ->
                [value |-> value, cpsr |-> m.cpsr, panic |-> "unreachable"]
    ELSE LET s == shift_immediate(shift_type, shift_amount, value)
         IN  [value |-> s.value, cpsr |-> m.cpsr, panic |-> s.panic]

\* operand2 rotating the immediate by the rotate field itself, not twice it.
operand2_rotate_once(m, opcode) ==
    IF get_bit(opcode, 25)
    THEN LET is == get_bits(opcode, 8, 11)
             nn == get_bits(opcode, 0, 7)
         IN  [value |-> rotate_right(U32(nn), is), cpsr |-> m.cpsr, panic |-> "none"]
    ELSE LET shift_type == get_bits(opcode, 5, 6)
             r == get_bit(opcode, 4)
             op2 == U32(get_bits(opcode, 0, 3))
         IN  IF ~r
             THEN shift(m, shift_type, get_bits(opcode, 7, 11), op2)
             ELSE LET rs == get_bits(opcode, 8, 11)
                      shift_amount == get_bits(register_at(m.registers, rs), 0, 7)
                      s == shift_immediate(shift_amount, shift_type, op2)
                  IN  [value |-> s.value, cpsr |-> m.cpsr, panic |-> s.panic]

\* The op2 of data_processing: [value, cpsr, panic].
operand2(m, opcode) ==
    IF get_bit(opcode, 25)
    THEN LET is == get_bits(opcode, 8, 11)
             nn == get_bits(opcode, 0, 7)
         IN  [value |-> rotate_right(U32(nn), is * 2), cpsr |-> m.cpsr, panic |-> "none"]
    ELSE LET shift_type == get_bits(opcode, 5, 6)
             r == get_bit(opcode, 4)
             op2 == U32(get_bits(opcode, 0, 3))
         IN  IF ~r
             THEN shift(m, shift_type, get_bits(opcode, 7, 11), op2)
             ELSE LET rs == get_bits(opcode, 8, 11)
                      shift_amount == get_bits(register_at(m.registers, rs), 0, 7)
                      s == shift_immediate(shift_amount, shift_type, op2)
                  IN  [value |-> s.value, cpsr |-> m.cpsr, panic |-> s.panic]

data_processing(m, opcode) ==
    LET alu_opcode == get_bits(opcode, 21, 24)
        rd == get_bits(opcode, 12, 15)
        rn == get_bits(opcode, 16, 19)
        op2 == operand2(m, opcode)
        m1 == [m EXCEPT !.cpsr = op2.cpsr]
    IN  IF op2.panic # "none"
        THEN [m1 EXCEPT !.panic = op2.panic]
        ELSE CASE AluInstructionOf(alu_opcode) = "Mov" -> mov(m1, rd, op2.value)
               [] AluInstructionOf(alu_opcode) = "Teq" -> teq(m1, rn, op2.value)
               [] OTHER -> [m1 EXCEPT !.panic = "todo"]

\* single_data_transfer reading the base register R15 without the prefetch
\* adjustment of 8.
single_data_transfer_raw_pc(m, opcode) ==
    LET immediate == get_bit(opcode, 25)
        up_down == get_bit(opcode, 23)
        rn == get_bits(opcode, 16, 19)
        address == register_at(m.registers, rn)
        rd == get_bits(opcode, 12, 15)
        offset == U32(get_bits(opcode, 0, 11))
    IN  IF immediate
        THEN [m EXCEPT !.panic = "todo"]
        ELSE IF SingleDataTransferOf(opcode) = "Ldr"
             THEN [m EXCEPT !.registers =
                       set_register_at(@, rd,
                           IF up_down THEN wrapping_sub(address, offset)
                                      ELSE wrapping_add(address, offset))]
             ELSE [m EXCEPT !.panic = "todo"]

\* single_data_transfer loading whatever the opcode is classified as: a store
\* or a preload writes Rd like a load.
single_data_transfer_unclassified(m, opcode) ==
    LET immediate == get_bit(opcode, 25)
        up_down == get_bit(opcode, 23)
        rn == get_bits(opcode, 16, 19)
        address == IF rn = 15
                   THEN wrapping_add(program_counter(m.registers), U32(8))
                   ELSE register_at(m.registers, rn)
        rd == get_bits(opcode, 12, 15)
        offset == U32(get_bits(opcode, 0, 11))
    IN  IF immediate
        THEN [m EXCEPT !.panic = "todo"]
        ELSE [m EXCEPT !.registers =
                  set_register_at(@, rd,
                      IF up_down THEN wrapping_sub(address, offset)
                                 ELSE wrapping_add(address, offset))]

\* pc + 8_u32 cannot overflow here: the fetch of the step bounds pc by the length
\* of rom.
single_data_transfer(m, opcode) ==
    LET immediate == get_bit(opcode, 25)
        up_down == get_bit(opcode, 23)
        rn == get_bits(opcode, 16, 19)
        address == IF rn = 15
                   THEN wrapping_add(program_counter(m.registers), U32(8))
                   ELSE register_at(m.registers, rn)
        rd == get_bits(opcode, 12, 15)
        offset == U32(get_bits(opcode, 0, 11))
    IN  IF immediate
        THEN [m EXCEPT !.panic = "todo"]
        ELSE IF SingleDataTransferOf(opcode) = "Ldr"
             THEN [m EXCEPT !.registers =
                       set_register_at(@, rd,
                           IF up_down THEN wrapping_sub(address, offset)
                                      ELSE wrapping_add(address, offset))]
             ELSE [m EXCEPT !.panic = "todo"]

execute(m, op_code, instruction_type) ==
    LET done == CASE instruction_type = "Branch" -> branch(m, op_code)
                  [] instruction_type = "BranchLink" -> branch_link(m, op_code)
                  [] instruction_type = "DataTransfer" -> single_data_transfer(m, op_code)
                  [] OTHER -> data_processing(m, op_code)
    IN  IF done.panic # "none"
        THEN done
        ELSE [done EXCEPT !.registers = advance_program_counter(@, 4)]

\* Whether rom[pc .. pc + OPCODE_ARM_SIZE] is inside rom.
fetchable(image, regs) ==
    LET pc == program_counter(regs)
    IN  pc[1] = 0 /\ pc[2] + OPCODE_ARM_SIZE <= Len(image)

\* fetch assembling the opcode from its bytes most significant first
\* (u32::from_be_bytes).
fetch_big_endian(image, regs) ==
    LET instruction_index == program_counter(regs)[2]
    IN  from_le_bytes([k \in 1..OPCODE_ARM_SIZE |->
                          image[instruction_index + OPCODE_ARM_SIZE + 1 - k]])

fetch(image, regs) ==
    LET instruction_index == program_counter(regs)[2]
    IN  from_le_bytes([k \in 1..OPCODE_ARM_SIZE |-> image[instruction_index + k]])

\* The condition of decode: opcode bits 31..28.
condition_of(op_code) == get_bits(op_code, 28, 31)

\* step executing the instruction without asking can_execute.
step_unconditional(image, m) ==
    IF ~fetchable(image, m.registers)
    THEN [m EXCEPT !.panic = "index"]
    ELSE LET op_code == fetch(image, m.registers)
             instruction == InstructionOf(op_code)
         IN  IF instruction = "Err"
             THEN [m EXCEPT !.panic = "decode"]
             ELSE execute(m, op_code, instruction)

step(image, m) ==
    IF ~fetchable(image, m.registers)
    THEN [m EXCEPT !.panic = "index"]
    ELSE LET op_code == fetch(image, m.registers)
             instruction == InstructionOf(op_code)
         IN  IF instruction = "Err"
             THEN [m EXCEPT !.panic = "decode"]
             ELSE IF can_execute(m.cpsr, condition_of(op_code))
                  THEN execute(m, op_code, instruction)
                  ELSE m

(***************************************************************************)
(* Code images.  An opcode is written as its four little-endian bytes,     *)
(* from the bit fields the decoder and the handlers read.                  *)
(***************************************************************************)
EQ == 0
NE == 1
AL == 14
NV == 15

\* cond | 101 | L | 24-bit offset
BranchOp(cond, link, offset) ==
    <<offset % 256, (offset \div 256) % 256, offset \div 65536, cond * 16 + 10 + link>>

\* cond | 00 | I | alu | S | Rn | Rd | 12 bits of operand 2
DataOp(cond, i, alu, s, rn, rd, operand) ==
    <<operand % 256,
      rd * 16 + operand \div 256,
      (alu % 8) * 32 + s * 16 + rn,
      cond * 16 + i * 2 + alu \div 8>>

\* operand 2 = immediate nn rotated right by 2 * is
DataImmediateOp(cond, alu, s, rn, rd, is, nn) ==
    DataOp(cond, 1, alu, s, rn, rd, is * 256 + nn)

\* operand 2 = Rm shifted by a 5-bit amount
DataShiftAmountOp(cond, alu, s, rn, rd, amount, type, rm) ==
    DataOp(cond, 0, alu, s, rn, rd, amount * 128 + type * 32 + rm)

\* operand 2 = Rm shifted by register Rs
DataShiftRegisterOp(cond, alu, s, rn, rd, rs, type, rm) ==
    DataOp(cond, 0, alu, s, rn, rd, rs * 256 + type * 32 + 16 + rm)

\* cond | 01 | I | P | U | B | W | L | Rn | Rd | 12-bit offset   (B = W = 0)
TransferOp(cond, i, p, u, l, rn, rd, offset) ==
    <<offset % 256,
      rd * 16 + offset \div 256,
      u * 128 + l * 16 + rn,
      cond * 16 + 4 + i * 2 + p>>

\* cond | 1xx with xx # 01: no instruction category of the decoder
UndecodableOp(cond, top) == <<0, 0, 0, cond * 16 + top>>

MOV == 13
TEQ == 9
ADD == 4
BranchOps ==
    {BranchOp(AL, 0, 2 ^ 23 + 1), BranchOp(EQ, 0, 0),
     BranchOp(AL, 1, 1), BranchOp(AL, 1, 2 ^ 23), BranchOp(EQ, 1, 0)}

DataImmediateOps ==
    {DataImmediateOp(AL, MOV, 0, 0, 1, 1, 2),
     DataImmediateOp(AL, MOV, 0, 0, 2, 0, 4),
     DataImmediateOp(AL, MOV, 0, 0, 15, 0, 0),
     DataImmediateOp(AL, MOV, 0, 0, 15, 0, 1),
     DataImmediateOp(AL, MOV, 1, 0, 0, 1, 2),
     DataImmediateOp(AL, MOV, 1, 0, 0, 0, 0),
     DataImmediateOp(NE, MOV, 0, 0, 1, 0, 100),
     DataImmediateOp(EQ, MOV, 0, 0, 1, 0, 100),
     DataImmediateOp(AL, MOV, 0, 0, 14, 15, 255),
     DataImmediateOp(AL, TEQ, 0, 1, 0, 0, 0),
     DataImmediateOp(AL, TEQ, 1, 0, 0, 1, 2),
     DataImmediateOp(AL, ADD, 0, 0, 0, 0, 1)}

DataShiftAmountOps ==
    {DataShiftAmountOp(AL, MOV, 0, 0, 0, 0, 0, 1),
     DataShiftAmountOp(AL, MOV, 0, 0, 0, 0, 1, 1),
     DataShiftAmountOp(AL, MOV, 0, 0, 0, 0, 2, 1),
     DataShiftAmountOp(AL, MOV, 0, 0, 0, 0, 3, 1),
     DataShiftAmountOp(AL, MOV, 0, 0, 0, 4, 0, 1),
     DataShiftAmountOp(AL, MOV, 0, 0, 0, 1, 2, 1),
     DataShiftAmountOp(EQ, MOV, 0, 0, 0, 0, 0, 1),
     DataShiftAmountOp(AL, TEQ, 1, 0, 0, 0, 1, 1),
     DataShiftAmountOp(AL, TEQ, 1, 1, 0, 0, 3, 1),
     DataShiftAmountOp(AL, TEQ, 0, 9, 3, 0, 0, 0),
     DataShiftAmountOp(AL, ADD, 0, 0, 0, 0, 2, 1),
     DataShiftAmountOp(AL, ADD, 0, 0, 0, 0, 1, 1),
     DataShiftAmountOp(AL, ADD, 0, 0, 0, 0, 3, 1)}

DataShiftRegisterOps ==
    {DataShiftRegisterOp(AL, MOV, 0, 0, 0, 2, 0, 1),
     DataShiftRegisterOp(AL, MOV, 0, 0, 0, 2, 1, 1),
     DataShiftRegisterOp(AL, TEQ, 1, 0, 0, 2, 2, 1),
     DataShiftRegisterOp(NV, MOV, 0, 0, 0, 2, 0, 1)}

TransferOps ==
    {TransferOp(AL, 0, 1, 1, 1, 15, 13, 24),
     TransferOp(AL, 0, 1, 0, 1, 15, 13, 24),
     TransferOp(AL, 0, 1, 1, 1, 1, 0, 24),
     TransferOp(AL, 0, 1, 0, 1, 1, 0, 4095),
     TransferOp(AL, 0, 1, 1, 1, 15, 15, 24),
     TransferOp(AL, 0, 1, 0, 1, 15, 15, 1),
     TransferOp(AL, 0, 1, 1, 0, 15, 13, 24),
     TransferOp(AL, 1, 1, 1, 1, 15, 13, 24),
     TransferOp(NV, 0, 1, 1, 1, 15, 13, 24),
     TransferOp(NV, 0, 1, 1, 0, 15, 13, 24),
     TransferOp(EQ, 0, 1, 1, 1, 15, 13, 24)}

UndecodableOps ==
    {UndecodableOp(AL, 8), UndecodableOp(EQ, 14)}

OpCodes ==
    BranchOps \cup DataImmediateOps \cup DataShiftAmountOps
        \cup DataShiftRegisterOps \cup TransferOps \cup UndecodableOps

\* The longest code image, in opcodes.
RomWords == 2

\* The bytes of a sequence of opcodes.
Image(ops) ==
    [k \in 1..(OPCODE_ARM_SIZE * Len(ops)) |->
        ops[((k - 1) \div OPCODE_ARM_SIZE) + 1][((k - 1) % OPCODE_ARM_SIZE) + 1]]

Roms == {Image(ops) : ops \in UNION {[1..n -> OpCodes] : n \in 0..RomWords}}

(***************************************************************************)
(* The core as a state machine.  prev is the core as the last step() found *)
(* it (registers and flags before the step), for properties that compare   *)
(* a step's result with its start.  direct counts the calls made to        *)
(* decode and execute without step(), and holds the opcode of the last.    *)
(***************************************************************************)
\* Arm7tdmi::new(rom)
Init ==
    /\ rom \in Roms
    /\ registers = RegistersDefault
    /\ cpsr = CpsrDefault
    /\ panic = "none"
    /\ prev = [stepped |-> FALSE, registers |-> RegistersDefault, cpsr |-> CpsrDefault]
    /\ direct = [calls |-> 0, op_code |-> Zero]

\* One call of step(); a panic ends the process, so no step follows it.
Step ==
    /\ panic = "none"
    /\ LET m == step(rom, [registers |-> registers, cpsr |-> cpsr, panic |-> panic])
       IN  /\ registers' = m.registers
           /\ cpsr' = m.cpsr
           /\ panic' = m.panic
    /\ prev' = [stepped |-> TRUE, registers |-> registers, cpsr |-> cpsr]
    /\ UNCHANGED <<rom, direct>>

Next == Step

Spec == Init /\ [][Next]_vars

(***************************************************************************)
(* The core driven as its tests drive it: built on an empty rom, then      *)
(* decode(opcode) and execute(opcode, instruction) called on the opcode    *)
(* itself, with no fetch and no can_execute in between.                    *)
(***************************************************************************)
\* The most calls of execute made on one core.
MaxCalls == 2

\* cpu.decode(op_code) followed by cpu.execute(op_code, instruction_type)
decode_execute(m, op_code) ==
    IF InstructionOf(op_code) = "Err"
    THEN [m EXCEPT !.panic = "decode"]
    ELSE execute(m, op_code, InstructionOf(op_code))

\* Arm7tdmi::new(vec![])
HarnessInit ==
    /\ rom = <<>>
    /\ registers = RegistersDefault
    /\ cpsr = CpsrDefault
    /\ panic = "none"
    /\ prev = [stepped |-> FALSE, registers |-> RegistersDefault, cpsr |-> CpsrDefault]
    /\ direct = [calls |-> 0, op_code |-> Zero]

CallExecute(bytes) ==
    /\ panic = "none"
    /\ direct.calls < MaxCalls
    /\ LET op_code == from_le_bytes(bytes)
           m == decode_execute([registers |-> registers, cpsr |-> cpsr, panic |-> panic],
                               op_code)
       IN  /\ registers' = m.registers
           /\ cpsr' = m.cpsr
           /\ panic' = m.panic
           /\ direct' = [calls |-> direct.calls + 1, op_code |-> op_code]
    /\ prev' = [stepped |-> FALSE, registers |-> registers, cpsr |-> cpsr]
    /\ UNCHANGED rom

HarnessNext == \E bytes \in OpCodes : CallExecute(bytes)

HarnessSpec == HarnessInit /\ [][HarnessNext]_vars

(***************************************************************************)
(* The last step, as the properties below speak of it.                     *)
(***************************************************************************)
\* The last step fetched an opcode.
Fetched == prev.stepped /\ fetchable(rom, prev.registers)

\* The opcode the last step fetched.
OpCode == fetch(rom, prev.registers)

\* The last step fetched and decoded an instruction.
Decoded == Fetched /\ InstructionOf(OpCode) # "Err"

\* The flags the last step found satisfied the condition of its instruction.
ConditionHeld == can_execute(prev.cpsr, condition_of(OpCode))

\* The last step did not execute its instruction: its condition failed.
Skipped == Decoded /\ ~ConditionHeld

\* The last step executed its instruction and completed.
Executed == Decoded /\ ConditionHeld /\ panic = "none"

\* The last step failed.
Failed == prev.stepped /\ panic # "none"

\* The program counter the last step started from, and x bytes further.
PcBefore == prev.registers[15]

PcBeforePlus(x) == wrapping_add(PcBefore, U32(x))

\* Registers lo..hi are as the last step found them.
SameRegisters(lo, hi) == \A r \in lo..hi : registers[r] = prev.registers[r]

\* The fields of the opcode of the last step.
Rd == get_bits(OpCode, 12, 15)

Rn == get_bits(OpCode, 16, 19)

Rm == get_bits(OpCode, 0, 3)

Alu == AluInstructionOf(get_bits(OpCode, 21, 24))

(***************************************************************************)
(* C1.  A step whose condition is not satisfied still advances the program *)
(* counter by 4.  step() advances only inside execute(), so the code does  *)
(* not: the skipped instruction is fetched again by the next step.         *)
(***************************************************************************)
C1_SkippedStepAdvancesPc ==
    Skipped => registers[15] = PcBeforePlus(4)

(***************************************************************************)
(* C2.  A step whose condition is not satisfied leaves R0..R14 and the     *)
(* flags N, Z, C, V as it found them, whatever the instruction category.   *)
(***************************************************************************)
C2_SkippedStepKeepsCore ==
    Skipped => SameRegisters(0, 14) /\ cpsr = prev.cpsr

\* A skipped instruction that would have written a register, after a step that
\* changed the register file.
C2_Witness ==
    /\ Skipped
    /\ InstructionOf(OpCode) \in {"DataProcessing3", "DataTransfer", "BranchLink"}
    /\ prev.registers # RegistersDefault

(***************************************************************************)
(* C3.  While no step has failed the program counter is a multiple of 4.   *)
(* MOV R15, #1 and a load into R15 break it in the code.                   *)
(***************************************************************************)
C3_PcIsWordAligned ==
    panic = "none" => registers[15][2] % 4 = 0

(***************************************************************************)
(* C4.  A step that fails leaves every register and every flag as it found *)
(* them.  The shifter of the code writes the sign flag for LSR #0 and      *)
(* ASR #0 before data_processing reaches its unimplemented ALU opcode.     *)
(***************************************************************************)
C4_FailedStepKeepsCore ==
    Failed => registers = prev.registers /\ cpsr = prev.cpsr

(***************************************************************************)
(* C5.  An executed BranchWithLink from PC = X with offset field o leaves  *)
(* R14 = X + 4 and PC = X + 8 + 4 * o + 4, R0..R13 and the flags as they   *)
(* were.                                                                   *)
(***************************************************************************)
C5_BranchLink ==
    (Executed /\ InstructionOf(OpCode) = "BranchLink") =>
        /\ registers[14] = PcBeforePlus(4)
        /\ registers[15] =
               wrapping_add(PcBeforePlus(8 + get_bits(OpCode, 0, 23) * 4), U32(4))
        /\ SameRegisters(0, 13)
        /\ cpsr = prev.cpsr

\* A BranchWithLink away from a program counter other than 0, with an offset.
C5_Witness ==
    /\ Executed
    /\ InstructionOf(OpCode) = "BranchLink"
    /\ PcBefore # Zero
    /\ get_bits(OpCode, 0, 23) # 0
    /\ prev.registers[14] # PcBeforePlus(4)

(***************************************************************************)
(* C6.  An executed MOV with an immediate operand writes                   *)
(* rotate_right(immediate, 2 * rotate field) to Rd and advances PC by 4;   *)
(* with Rd = 15 it leaves that value plus 4 in R15.  No other register     *)
(* changes.                                                                *)
(***************************************************************************)
C6_MovImmediate ==
    (Executed /\ InstructionOf(OpCode) = "DataProcessing3" /\ Alu = "Mov") =>
        LET value == rotate_right(U32(get_bits(OpCode, 0, 7)),
                                  get_bits(OpCode, 8, 11) * 2)
        IN  /\ \A r \in 0..14 :
                   registers[r] = IF r = Rd THEN value ELSE prev.registers[r]
            /\ registers[15] = IF Rd = 15 THEN wrapping_add(value, U32(4))
                                          ELSE PcBeforePlus(4)

\* A MOV whose immediate is rotated, into a register that held something else.
C6_Witness ==
    /\ Executed
    /\ InstructionOf(OpCode) = "DataProcessing3"
    /\ Alu = "Mov"
    /\ get_bits(OpCode, 8, 11) # 0
    /\ Rd # 15
    /\ registers[Rd] # prev.registers[Rd]
    /\ PcBefore # Zero

(***************************************************************************)
(* C7.  An executed load (bit 20 set, bit 25 clear, condition not 1111)    *)
(* into Rd # 15 leaves in Rd the address itself: the base (PC + 8 when Rn  *)
(* is 15, else the value of Rn) minus the 12-bit offset when bit 23 is     *)
(* set, plus the offset when it is clear; PC advances by 4.                *)
(***************************************************************************)
C7_Load ==
    (/\ Executed
     /\ InstructionOf(OpCode) = "DataTransfer"
     /\ get_bit(OpCode, 20)
     /\ ~get_bit(OpCode, 25)
     /\ condition_of(OpCode) # NV
     /\ Rd # 15) =>
        LET base == IF Rn = 15 THEN PcBeforePlus(8) ELSE prev.registers[Rn]
            offset == U32(get_bits(OpCode, 0, 11))
        IN  /\ registers[Rd] = IF get_bit(OpCode, 23)
                               THEN wrapping_sub(base, offset)
                               ELSE wrapping_add(base, offset)
            /\ registers[15] = PcBeforePlus(4)

\* A load relative to a program counter other than 0, offset subtracted.
C7_Witness ==
    /\ Executed
    /\ InstructionOf(OpCode) = "DataTransfer"
    /\ get_bit(OpCode, 20)
    /\ get_bit(OpCode, 23)
    /\ Rn = 15
    /\ Rd # 15
    /\ PcBefore # Zero
    /\ get_bits(OpCode, 0, 11) # 0

ShiftedByAmount(type, amount, value) ==
    CASE type = 0 -> shl(value, amount)
      [] type = 1 -> shr(value, amount)
      [] type = 2 -> sar(value, amount)
      [] OTHER    -> rotate_right(value, amount)

C9_OperandIsValueOfRm ==
    (/\ Executed
     /\ InstructionOf(OpCode) = "DataProcessing1"
     /\ Alu = "Mov"
     /\ Rd # 15
     /\ (get_bits(OpCode, 7, 11) # 0 \/ get_bits(OpCode, 5, 6) = 0)) =>
        registers[Rd] = ShiftedByAmount(get_bits(OpCode, 5, 6),
                                        get_bits(OpCode, 7, 11),
                                        prev.registers[Rm])

(***************************************************************************)
(* C10.  In the register form with a shift by register, the shift type is  *)
(* opcode bits 6..5 and the amount the low 8 bits of Rs, and the           *)
(* instruction executes for every value of Rs.  The code passes the two    *)
(* to shift_immediate in the other order.                                  *)
(***************************************************************************)
\* A shift by the low 8 bits of a register: amounts 0..255.
ShiftedByRegister(type, amount, value) ==
    CASE amount = 0 -> value
      [] amount < 32 -> ShiftedByAmount(type, amount, value)
      [] type = 2 -> sar(value, 31)
      [] type = 3 -> rotate_right(value, amount % 32)
      [] OTHER -> Zero

C10_ShiftByRegister ==
    (/\ Decoded
     /\ ConditionHeld
     /\ InstructionOf(OpCode) = "DataProcessing2"
     /\ Alu = "Mov"
     /\ Rd # 15) =>
        LET type == get_bits(OpCode, 5, 6)
            amount == get_bits(prev.registers[get_bits(OpCode, 8, 11)], 0, 7)
        IN  /\ panic = "none"
            \* whichever of the value and the number of Rm is shifted (see C9)
            /\ registers[Rd] \in {ShiftedByRegister(type, amount, prev.registers[Rm]),
                                  ShiftedByRegister(type, amount, U32(Rm))}

(***************************************************************************)
(* The shift fields of a register operand shifted by an immediate amount.  *)
(***************************************************************************)
ShiftType == get_bits(OpCode, 5, 6)

ShiftAmount == get_bits(OpCode, 7, 11)

\* The last step executed a data-processing instruction whose operand 2 is
\* Rm shifted by the immediate amount 0 with the given shift type.
ExecutedShiftByZero(type) ==
    /\ Executed
    /\ InstructionOf(OpCode) = "DataProcessing1"
    /\ ShiftType = type
    /\ ShiftAmount = 0

(***************************************************************************)
(* C11.  LSR #0 resolves operand 2 to 0 and makes the CARRY flag bit 31 of *)
(* the value of Rm; the shifter does not write the sign flag.  The code    *)
(* writes bit 31 of Rm to the SIGN flag and never writes the carry flag.   *)
(***************************************************************************)
C11_LsrZeroSetsCarry ==
    ExecutedShiftByZero(1) =>
        /\ cpsr.carry_flag = get_bit(prev.registers[Rm], 31)
        /\ (Alu = "Mov" /\ Rd # 15) => registers[Rd] = Zero
        /\ (Alu = "Mov" /\ ~get_bit(OpCode, 20)) =>
               cpsr.sign_flag = prev.cpsr.sign_flag

(***************************************************************************)
(* C12.  ASR #0 resolves operand 2 to 32 copies of bit 31 of the value of  *)
(* Rm and makes the CARRY flag that bit.  The code resolves it to 1 or 0,  *)
(* sets the SIGN flag to true in both cases and never writes the carry.    *)
(***************************************************************************)
C12_AsrZeroFillsWithSign ==
    ExecutedShiftByZero(2) =>
        /\ cpsr.carry_flag = get_bit(prev.registers[Rm], 31)
        /\ (Alu = "Mov" /\ Rd # 15) =>
               registers[Rd] = IF get_bit(prev.registers[Rm], 31)
                               THEN <<Half - 1, Half - 1>>
                               ELSE Zero

(***************************************************************************)
(* C13.  An executed Branch from PC = X leaves PC = X + 8 + 4 * o + 4,     *)
(* with o the low 24 bits of the opcode read as an unsigned number, also   *)
(* when bit 23 is set; R0..R14 and the flags are as they were.             *)
(***************************************************************************)
C13_Branch ==
    (Executed /\ InstructionOf(OpCode) = "Branch") =>
        /\ registers[15] =
               wrapping_add(PcBeforePlus(8 + get_bits(OpCode, 0, 23) * 4), U32(4))
        /\ SameRegisters(0, 14)
        /\ cpsr = prev.cpsr

\* A Branch whose offset field has bit 23 set, taken away from a program counter
\* other than 0 while R14 holds a value.
C13_Witness ==
    /\ Executed
    /\ InstructionOf(OpCode) = "Branch"
    /\ get_bit(OpCode, 23)
    /\ PcBefore # Zero
    /\ prev.registers[14] # Zero

(***************************************************************************)
(* C14.  An executed MOV with bit 20 clear leaves N, Z, C and V as they    *)
(* were for every form of operand 2, and Branch, BranchWithLink and Single *)
(* Data Transfer change no flag.  In the code the shifter writes the sign  *)
(* flag for LSR #0 and ASR #0 (see C11, C12), MOV or not, bit 20 or not.   *)
(***************************************************************************)
C14_OnlyFlagHandlersWriteFlags ==
    /\ (/\ Executed
        /\ InstructionOf(OpCode) \in {"DataProcessing1", "DataProcessing2", "DataProcessing3"}
        /\ Alu = "Mov"
        /\ ~get_bit(OpCode, 20)) => cpsr = prev.cpsr
    /\ (/\ Executed
        /\ InstructionOf(OpCode) \in {"Branch", "BranchLink", "DataTransfer"}) =>
           cpsr = prev.cpsr

(***************************************************************************)
(* C15.  An executed MOV with bit 20 set leaves N = bit 31 of the value    *)
(* written to Rd and Z = (that value is 0).  data_processing reads bit 20  *)
(* into _s and never uses it: MOV writes no flag.                          *)
(***************************************************************************)
C15_MovsUpdatesFlags ==
    (/\ Executed
     /\ InstructionOf(OpCode) \in {"DataProcessing1", "DataProcessing2", "DataProcessing3"}
     /\ Alu = "Mov"
     /\ get_bit(OpCode, 20)
     /\ Rd # 15) =>
        /\ cpsr.sign_flag = get_bit(registers[Rd], 31)
        /\ cpsr.zero_flag = (registers[Rd] = Zero)

(***************************************************************************)
(* C17.  A data-processing instruction whose operand 2 is Rm, ROR #0 ends  *)
(* in todo!() whatever its ALU opcode is, MOV and TEQ included, with every *)
(* register and flag as the step found them.                               *)
(***************************************************************************)
C17_RorZeroIsUnimplemented ==
    (/\ Decoded
     /\ ConditionHeld
     /\ InstructionOf(OpCode) = "DataProcessing1"
     /\ ShiftType = 3
     /\ ShiftAmount = 0) =>
        /\ panic = "todo"
        /\ registers = prev.registers
        /\ cpsr = prev.cpsr

\* A MOV or TEQ with ROR #0 that failed on a core an earlier step had changed.
C17_Witness ==
    /\ Decoded
    /\ ConditionHeld
    /\ InstructionOf(OpCode) = "DataProcessing1"
    /\ ShiftType = 3
    /\ ShiftAmount = 0
    /\ Alu \in {"Mov", "Teq"}
    /\ panic = "todo"
    /\ PcBefore # Zero
    /\ \E r \in 0..14 : prev.registers[r] # Zero

(***************************************************************************)
(* C18.  step() reads the four bytes of rom at offsets PC..PC+3 and        *)
(* nothing else of it: the step is the decode and conditional execute of   *)
(* the little-endian word they spell.  When PC + 4 exceeds the length of   *)
(* rom the step fails in fetch, with every register and flag as it found   *)
(* them.  No step changes rom.                                             *)
(***************************************************************************)
\* PC + 4 is within rom (offsets count from 0).
PcInsideRom == registers[15][1] = 0 /\ registers[15][2] + 4 <= Len(rom)

\* The core after decoding and conditionally executing the word spelled by the
\* bytes at offsets PC..PC+3.
AfterWordAtPc ==
    LET pc == registers[15][2]
        word == <<rom[pc + 4] * 256 + rom[pc + 3], rom[pc + 2] * 256 + rom[pc + 1]>>
        core == [registers |-> registers, cpsr |-> cpsr, panic |-> "none"]
    IN  IF InstructionOf(word) = "Err"
        THEN [core EXCEPT !.panic = "decode"]
        ELSE IF can_execute(cpsr, get_bits(word, 28, 31))
             THEN execute(core, word, InstructionOf(word))
             ELSE core

C18_StepOfFetch ==
    /\ rom' = rom
    /\ (panic = "none" /\ ~PcInsideRom) =>
           /\ panic' = "index"
           /\ registers' = registers
           /\ cpsr' = cpsr
    /\ (panic = "none" /\ PcInsideRom) =>
           /\ registers' = AfterWordAtPc.registers
           /\ cpsr' = AfterWordAtPc.cpsr
           /\ panic' = AfterWordAtPc.panic

C18_Fetch == [][C18_StepOfFetch]_vars

\* A step that failed in fetch at a program counter inside rom whose opcode
\* would end beyond it, on a core an earlier step had changed.
C18_Witness ==
    /\ prev.stepped
    /\ panic = "index"
    /\ PcBefore[1] = 0
    /\ PcBefore[2] < Len(rom)
    /\ PcBefore[2] + 4 > Len(rom)
    /\ registers = prev.registers
    /\ cpsr = prev.cpsr

(***************************************************************************)
(* C16.  Every Single Data Transfer opcode (bits 27..26 = 01) decodes, and *)
(* executing it ends in todo!() with no register written when bit 25 is    *)
(* set, when bit 20 is clear (a store) or when bits 31..28 are all set (a  *)
(* preload); only a load with bit 25 clear executes.                       *)
(***************************************************************************)
\* The opcode of the last direct call of decode and execute.
Called == direct.calls > 0

CalledOpCode == direct.op_code

====
